---- MODULE Spec2Model ----
(***************************************************************************)
(* Model of the bankbot-leads server (src/server.js): the lead lifecycle   *)
(* handlers, the confirmation-token codec and the notification fan-out.    *)
(* src/server.js holds three successive variants of the server; the model  *)
(* follows the second one (lines 490-1174) and adds the token routes of    *)
(* the first (lines 324-446) and of the third (lines 1491-1515), and the   *)
(* lead-created route of the first (lines 219-277).                        *)
(*                                                                         *)
(* Strings the code inspects character by character (identifiers, tokens)  *)
(* are sequences of one-character strings; every other string is a TLA+    *)
(* string.  NoVal stands for JavaScript's null / undefined.                *)
(***************************************************************************)
EXTENDS Integers, Sequences, FiniteSets, TLC

VARIABLES leads, now, reqs, tok, calls

vars == <<leads, now, reqs, tok, calls>>

NoVal == "null"

\* ------------------------------------------------------------------ bounds
\* Hex digits per segment of an identifier (a UUID has 8-4-4-4-12).
SegLen == 1
\* Hex digits of a nonce (the code draws 16 bytes, 32 hex digits).
NonceLen == 1
\* Largest reading of the clock.
MaxTime == 1
\* Rows of the table the TTI aggregation is checked on.
MaxRows == 2
\* Longest company_name the company filter is checked on.
MaxNameLen == 2
\* Longest phone_number the phone normalisation is checked on.
MaxPhoneLen == 5

\* ------------------------------------------------------------ characters
Dash == "-"
Hex == {"a", "f"}

Min(a, b) == IF a < b THEN a ELSE b
Max(a, b) == IF a > b THEN a ELSE b

\* All strings of exactly n characters over the alphabet cs.
RECURSIVE StringsOf(_, _)
StringsOf(cs, n) ==
  IF n = 0 THEN {<<>>}
  ELSE {<<c>> \o s : c \in cs, s \in StringsOf(cs, n - 1)}

\* ------------------------------------------------- JavaScript string ops
\* String.prototype.split("-"): the pieces between the dashes, empty ones kept.
RECURSIVE Split(_)
Split(s) ==
  IF \A i \in DOMAIN s : s[i] # Dash THEN <<s>>
  ELSE LET k == CHOOSE i \in DOMAIN s :
                  /\ s[i] = Dash
                  /\ \A j \in 1..(i - 1) : s[j] # Dash
       IN <<SubSeq(s, 1, k - 1)>> \o Split(SubSeq(s, k + 1, Len(s)))

\* Array.prototype.join("-").
RECURSIVE Join(_)
Join(parts) ==
  IF Len(parts) = 0 THEN <<>>
  ELSE IF Len(parts) = 1 THEN parts[1]
  ELSE parts[1] \o <<Dash>> \o Join(Tail(parts))

\* Array.prototype.slice(0, n).
Slice0(parts, n) == SubSeq(parts, 1, Min(n, Len(parts)))

\* String.prototype.lastIndexOf("-"): 0-based, -1 when there is none.
LastIndexOf(s) ==
  IF \A i \in DOMAIN s : s[i] # Dash THEN -1
  ELSE (CHOOSE i \in DOMAIN s :
          /\ s[i] = Dash
          /\ \A j \in (i + 1)..Len(s) : s[j] # Dash) - 1

\* String.prototype.substring(a, b): both ends clamped to 0..length, swapped
\* when a > b.
Substring(s, a, b) ==
  LET ca == Max(0, Min(a, Len(s)))
      cb == Max(0, Min(b, Len(s)))
  IN SubSeq(s, Min(ca, cb) + 1, Max(ca, cb))

\* ---------------------------------------------------------- token codec
\* The canonical identifiers: five hex segments joined by four dashes.
Segments == StringsOf(Hex, SegLen)
Uuids == {Join(<<a, b, c, d, e>>) :
            a \in Segments, b \in Segments, c \in Segments,
            d \in Segments, e \in Segments}
UuidLen == 5 * SegLen + 4

\* crypto.randomBytes(16).toString("hex"): any string of hex digits.
Nonces == StringsOf(Hex, NonceLen)

generateIssueTokenDashedNonce(leadId, nonce) ==
  leadId \o <<Dash>> \o nonce \o <<Dash>> \o nonce
\* function generateIssueToken(leadId), the nonce made explicit.
generateIssueToken(leadId, nonce) == leadId \o <<Dash>> \o nonce

\* parts.slice(0, 5).join("-")  (first variant)
DecodeFirstFiveSegments(token) == Join(Slice0(Split(token), 5))

\* token.substring(0, token.lastIndexOf("-"))  (second variant)
DecodeBeforeLastDash(token) == Substring(token, 0, LastIndexOf(token))

\* token.split("-")[0]  (third variant)
DecodeFirstSegment(token) == Split(token)[1]

\* if (!leadId) return res.status(400).send("Invalid token")
Falsy(s) == s = <<>>

\* ------------------------------------------------------------ the store
NoId == <<>>
NoTime == -1

\* A segment of SegLen copies of one hex digit.
Rep(c) == [i \in 1..SegLen |-> c]
\* The lead row the store holds, and a well-formed identifier it does not hold.
L1 == Join(<<Rep("a"), Rep("a"), Rep("a"), Rep("a"), Rep("a")>>)
Lx == Join(<<Rep("f"), Rep("f"), Rep("f"), Rep("f"), Rep("f")>>)

\* Table loan_applications: the columns the handlers read or write.
NewLead(company) ==
  [status |-> "New", company_name |-> company, assigned_agent |-> NoVal,
   assigned_branch |-> NoVal, assigned_time |-> NoTime, issued_time |-> NoTime]

\* Table agents (read only here).
AgentTable ==
  [a \in {"A1", "A2"} |->
     IF a = "A1"
     THEN [name |-> "Alice", phone |-> "+447000000001", email |-> "alice@acme.test"]
     ELSE [name |-> "Bob", phone |-> NoVal, email |-> "bob@acme.test"]]

\* Table users (read only here).
UserTable ==
  [u \in {"U1", "U2", "U3", "U4", "U5", "U6", "U7", "U8"} |->
     CASE u = "U1" -> [role |-> "admin", company_name |-> "Acme", branch |-> NoVal,
                       phone |-> "+447000000011", email |-> "u1@acme.test",
                       lead_notifications |-> TRUE]
       [] u = "U2" -> [role |-> "admin", company_name |-> "Acme", branch |-> NoVal,
                       phone |-> NoVal, email |-> "u2@acme.test",
                       lead_notifications |-> TRUE]
       [] u = "U3" -> [role |-> "admin", company_name |-> "Acme", branch |-> NoVal,
                       phone |-> "+447000000013", email |-> "u3@acme.test",
                       lead_notifications |-> FALSE]
       [] u = "U4" -> [role |-> "manager", company_name |-> "Acme", branch |-> "B1",
                       phone |-> "+447000000014", email |-> "u4@acme.test",
                       lead_notifications |-> TRUE]
       [] u = "U5" -> [role |-> "manager", company_name |-> "Acme", branch |-> "B1",
                       phone |-> "+447000000015", email |-> NoVal,
                       lead_notifications |-> TRUE]
       [] u = "U6" -> [role |-> "manager", company_name |-> "Acme", branch |-> "B2",
                       phone |-> "+447000000016", email |-> "u6@acme.test",
                       lead_notifications |-> TRUE]
       [] u = "U8" -> [role |-> "manager", company_name |-> "Other", branch |-> "B1",
                       phone |-> "+447000000018", email |-> "u8@other.test",
                       lead_notifications |-> FALSE]
       [] OTHER    -> [role |-> "admin", company_name |-> "Other", branch |-> NoVal,
                       phone |-> "+447000000017", email |-> "u7@other.test",
                       lead_notifications |-> TRUE]]

\* Table message_templates: the channels configured for (company_name, type),
\* in the order the query returns them.
TemplateTable(company, type) ==
  IF company = "Acme" /\ type = "Issued" THEN <<"sms", "email">>
  ELSE IF company = "Acme" /\ type = "Follow Up" THEN <<"email">>
  ELSE <<>>

\* .update(fields).eq("id", id): every row with that id takes the fields.
Merge(row, fields) ==
  [f \in DOMAIN row |-> IF f \in DOMAIN fields THEN fields[f] ELSE row[f]]
UpdateEqAnyId(ls, id, fields) == [i \in DOMAIN ls |-> Merge(ls[i], fields)]
UpdateEq(ls, id, fields) ==
  [i \in DOMAIN ls |-> IF i = id THEN Merge(ls[i], fields) ELSE ls[i]]

\* ------------------------------------------------- one handler invocation
\* What a request slot holds: the request, the handler's position, and what
\* the handler did (store calls, sends, voice calls) and answered.
Blank ==
  [pc |-> "idle", route |-> "none",
   lead |-> NoId, hasLead |-> FALSE, phone |-> FALSE, email |-> FALSE,
   agentId |-> NoVal, type |-> NoVal, company |-> NoVal, branchId |-> NoVal,
   status |-> NoVal, token |-> NoId, leadId |-> NoId, raced |-> FALSE,
   store |-> <<>>, sends |-> <<>>, voice |-> 0, t |-> NoTime,
   failed |-> "none", code |-> 0, kind |-> NoVal, success |-> NoVal, msg |-> NoVal,
   data |-> <<>>, number |-> <<>>, dialed |-> <<>>]

\* res.status(code).json({success, ...})
Json(rep, code, success, msg) ==
  [rep EXCEPT !.pc = "done", !.code = code, !.kind = "json",
              !.success = success, !.msg = msg]
\* res.sendStatus(code)
Status(rep, code) ==
  [rep EXCEPT !.pc = "done", !.code = code, !.kind = "text", !.msg = "OK"]
\* res.status(code).send(text or page)
Page(rep, code, msg) ==
  [rep EXCEPT !.pc = "done", !.code = code, !.kind = "html", !.msg = msg]

\* The sends a handler gets through when the send at position failAt throws
\* (0: none throws): every planned send before it succeeds, it fails, and the
\* await's exception skips the rest.
Attempt(planned, failAt) ==
  IF failAt = 0 \/ failAt > Len(planned)
  THEN planned
  ELSE [i \in 1..failAt |-> [planned[i] EXCEPT !.ok = (i # failAt)]]
Threw(planned, failAt) == failAt >= 1 /\ failAt <= Len(planned)

\* The external call that failed in this invocation: a store call, a send or
\* the voice API call.
Failed(rep, what) == [rep EXCEPT !.failed = what]

\* One outbound message: twilioClient.messages.create (sms) or sgMail.send
\* (email), to the address `to` of recipient `rcpt`, carrying the token `link`.
Msg(rcpt, to, channel, link) ==
  [rcpt |-> rcpt, to |-> to, channel |-> channel, link |-> link, ok |-> TRUE]

\* A slot takes a new request when it holds none.
Free(r) == r \in DOMAIN reqs /\ reqs[r].pc = "idle"

\* ------------------------------------------------------ POST /assign-lead
AssignLeadReq(hasLead, lead, agentId) ==
  [Blank EXCEPT !.route = "assign-lead", !.hasLead = hasLead,
                !.lead = IF hasLead THEN lead ELSE NoId, !.agentId = agentId]

AssignLeadFieldsAgentId(agentId, agent, t) ==
  [status |-> "In Progress", assigned_agent |-> agentId, assigned_time |-> t]
\* .update({status: "In Progress", assigned_agent: agent.name,
\*          assigned_time: new Date().toISOString()})
AssignLeadFields(agentId, agent, t) ==
  [status |-> "In Progress", assigned_agent |-> agent.name, assigned_time |-> t]

\* The handler from the request rq at clock reading t: the leads table it
\* leaves and its report.  agentErr, updErr: the store call fails; failAt: the
\* send that throws.  Both sends are made whatever the agent's row holds
\* (to: agent.phone, to: agent.email), and a send with no address throws.
AssignLeadHandler(ls, t, rq, nonce, agentErr, failAt, updErr) ==
  IF ~rq.hasLead \/ rq.agentId = NoVal
  THEN [leads |-> ls, rep |-> Json(rq, 400, "false", "Missing lead or agentId")]
  ELSE
    LET r1 == [rq EXCEPT !.store = <<"select agents">>]
    IN IF agentErr
       THEN [leads |-> ls,
             rep |-> Json(Failed(r1, "store"), 500, "false", "Agent not found")]
       ELSE IF rq.agentId \notin DOMAIN AgentTable
       THEN [leads |-> ls, rep |-> Json(r1, 500, "false", "Agent not found")]
       ELSE
         LET agent == AgentTable[rq.agentId]
             token == generateIssueToken(rq.lead, nonce)
             planned == <<Msg(rq.agentId, agent.phone, "sms", token),
                          Msg(rq.agentId, agent.email, "email", token)>>
             thrown == IF agent.phone = NoVal THEN 1
                       ELSE IF agent.email = NoVal /\ failAt # 1 THEN 2
                       ELSE failAt
             r2 == [r1 EXCEPT !.sends = Attempt(planned, thrown)]
             r3 == [r2 EXCEPT !.store = Append(r2.store, "update loan_applications"),
                              !.t = t]
         IN IF Threw(planned, thrown)
            THEN [leads |-> ls,
                  rep |-> Json(Failed(r2, "send"), 500, "false", "send failed")]
            ELSE IF updErr
            THEN [leads |-> ls,
                  rep |-> Json(Failed(r3, "store"), 500, "false", "update rejected")]
            ELSE [leads |-> UpdateEq(ls, rq.lead, AssignLeadFields(rq.agentId, agent, t)),
                  rep |-> Json(r3, 200, "true", "Lead assigned")]

AssignLead(r, hasLead, lead, agentId, nonce, agentErr, failAt, updErr) ==
  /\ Free(r)
  /\ LET out == AssignLeadHandler(leads, now, AssignLeadReq(hasLead, lead, agentId),
                                  nonce, agentErr, failAt, updErr)
     IN /\ leads' = out.leads
        /\ reqs' = [reqs EXCEPT ![r] = out.rep]
  /\ UNCHANGED <<now, tok, calls>>

\* ------------------------------------------------------ POST /mark-issued
MarkIssuedReq(hasLead, lead) ==
  [Blank EXCEPT !.route = "mark-issued", !.hasLead = hasLead,
                !.lead = IF hasLead THEN lead ELSE NoId]

MarkIssuedHandler(ls, t, rq, updErr) ==
  IF Falsy(rq.lead)
  THEN [leads |-> ls, rep |-> Json(rq, 400, "false", "Missing lead id")]
  ELSE
    LET r1 == [rq EXCEPT !.store = <<"update loan_applications">>, !.t = t]
    IN IF updErr
       THEN [leads |-> ls,
             rep |-> Json(Failed(r1, "store"), 500, "false", "update rejected")]
       ELSE [leads |-> UpdateEq(ls, rq.lead, [status |-> "Issued", issued_time |-> t]),
             rep |-> Json(r1, 200, "true", "Lead marked as Issued")]

MarkIssued(r, hasLead, lead, updErr) ==
  /\ Free(r)
  /\ LET out == MarkIssuedHandler(leads, now, MarkIssuedReq(hasLead, lead), updErr)
     IN /\ leads' = out.leads
        /\ reqs' = [reqs EXCEPT ![r] = out.rep]
  /\ UNCHANGED <<now, tok, calls>>

\* ------------------------------------------- POST /confirm-status/:token
\* const status = req.query.status || "Unknown"
ConfirmStatusReq(token, status) ==
  [Blank EXCEPT !.route = "confirm-status", !.token = token,
                !.leadId = DecodeBeforeLastDash(token),
                !.status = IF status = NoVal THEN "Unknown" ELSE status]

ConfirmStatusLookupNoMissingCheck(ls, rq, fetchErr) ==
  IF Falsy(rq.leadId)
  THEN Page(rq, 400, "Invalid token")
  ELSE
    LET r1 == [rq EXCEPT !.store = <<"select loan_applications">>]
    IN IF fetchErr
       THEN Page(Failed(r1, "store"), 500, "Error updating status")
       ELSE [r1 EXCEPT !.pc = "fetched"]
ConfirmStatusLookupKnownNonce(ls, rq, fetchErr) ==
  IF Falsy(rq.leadId)
     \/ rq.token # generateIssueToken(rq.leadId, CHOOSE n \in Nonces : TRUE)
  THEN Page(rq, 400, "Invalid token")
  ELSE
    LET r1 == [rq EXCEPT !.store = <<"select loan_applications">>]
    IN IF fetchErr
       THEN Page(Failed(r1, "store"), 500, "Error updating status")
       ELSE IF rq.leadId \notin DOMAIN ls
       THEN Page(r1, 500, "Error updating status")
       ELSE [r1 EXCEPT !.pc = "fetched"]
\* Up to the await of the lead lookup: the handler answers, or is suspended
\* with the lead found.
ConfirmStatusLookup(ls, rq, fetchErr) ==
  IF Falsy(rq.leadId)
  THEN Page(rq, 400, "Invalid token")
  ELSE
    LET r1 == [rq EXCEPT !.store = <<"select loan_applications">>]
    IN IF fetchErr
       THEN Page(Failed(r1, "store"), 500, "Error updating status")
       ELSE IF rq.leadId \notin DOMAIN ls
       THEN Page(r1, 500, "Error updating status")
       ELSE [r1 EXCEPT !.pc = "fetched"]

ConfirmStatusFieldsAlwaysIssued(status, t) ==
  [status |-> "Issued", issued_time |-> t]
ConfirmStatusFieldsNoStatus(status, t) == [issued_time |-> t]
ConfirmStatusFieldsClearAgent(status, t) ==
  [status |-> status, issued_time |-> t, assigned_agent |-> NoVal]
\* .update({status, issued_time: new Date().toISOString()})
ConfirmStatusFields(status, t) == [status |-> status, issued_time |-> t]

\* From the lookup's answer to the response: the update and the page.
ConfirmStatusWrite(ls, t, rq, updErr, raced) ==
  LET r1 == [rq EXCEPT !.store = Append(rq.store, "update loan_applications"),
                       !.t = t, !.raced = raced]
  IN IF updErr
     THEN [leads |-> ls, rep |-> Page(Failed(r1, "store"), 500, "Error updating status")]
     ELSE [leads |-> UpdateEq(ls, rq.leadId, ConfirmStatusFields(rq.status, t)),
           rep |-> Page(r1, 200, "Status Updated")]

ConfirmStatusFetch(r, token, status, fetchErr) ==
  /\ Free(r)
  /\ reqs' = [reqs EXCEPT ![r] =
               ConfirmStatusLookup(leads, ConfirmStatusReq(token, status), fetchErr)]
  /\ UNCHANGED <<leads, now, tok, calls>>

\* raced: another request for the same lead is suspended between its own
\* lookup and update while this one writes.
ConfirmStatusUpdate(r, updErr) ==
  /\ r \in DOMAIN reqs
  /\ reqs[r].pc = "fetched"
  /\ reqs[r].route = "confirm-status"
  /\ LET raced == \E o \in DOMAIN reqs \ {r} :
                    /\ reqs[o].pc = "fetched"
                    /\ reqs[o].leadId = reqs[r].leadId
         out == ConfirmStatusWrite(leads, now, reqs[r], updErr, raced)
     IN /\ leads' = out.leads
        /\ reqs' = [reqs EXCEPT ![r] = out.rep]
  /\ UNCHANGED <<now, tok, calls>>

\* ------------------------------- GET /mark-issued/:token (three variants)
\* First variant: the identifier is the first five dash-separated pieces.
MarkIssuedPageV1Req(token) ==
  [Blank EXCEPT !.route = "GET mark-issued (v1)", !.token = token,
                !.leadId = DecodeFirstFiveSegments(token)]
\* Second variant: the identifier is everything before the last dash.
MarkIssuedPageV2Req(token) ==
  [Blank EXCEPT !.route = "GET mark-issued (v2)", !.token = token,
                !.leadId = DecodeBeforeLastDash(token)]
\* Third variant: the identifier is the piece before the first dash.
MarkIssuedGetV3Req(token) ==
  [Blank EXCEPT !.route = "GET mark-issued (v3)", !.token = token,
                !.leadId = DecodeFirstSegment(token)]

\* First and second variant: look the lead up and render the confirmation page.
MarkIssuedPageHandler(ls, rq, fetchErr) ==
  IF Falsy(rq.leadId)
  THEN Page(rq, 400, "Invalid token")
  ELSE
    LET r1 == [rq EXCEPT !.store = <<"select loan_applications">>]
    IN IF fetchErr
       THEN Page(Failed(r1, "store"), 500, "Error loading confirmation page")
       ELSE IF rq.leadId \notin DOMAIN ls
       THEN Page(r1, 500, "Error loading confirmation page")
       ELSE Page(r1, 200, "confirmation page")

\* Third variant: the GET itself marks the lead Issued.
MarkIssuedGetV3Handler(ls, t, rq, updErr) ==
  IF Falsy(rq.leadId)
  THEN [leads |-> ls, rep |-> Page(rq, 400, "Invalid token")]
  ELSE
    LET r1 == [rq EXCEPT !.store = <<"update loan_applications">>, !.t = t]
    IN IF updErr
       THEN [leads |-> ls, rep |-> Page(Failed(r1, "store"), 500, "Error marking issued")]
       ELSE [leads |-> UpdateEq(ls, rq.leadId, [status |-> "Issued", issued_time |-> t]),
             rep |-> Page(r1, 200, "Lead successfully marked as Issued")]

MarkIssuedPageV1(r, token, fetchErr) ==
  /\ Free(r)
  /\ reqs' = [reqs EXCEPT ![r] =
               MarkIssuedPageHandler(leads, MarkIssuedPageV1Req(token), fetchErr)]
  /\ UNCHANGED <<leads, now, tok, calls>>

MarkIssuedPageV2(r, token, fetchErr) ==
  /\ Free(r)
  /\ reqs' = [reqs EXCEPT ![r] =
               MarkIssuedPageHandler(leads, MarkIssuedPageV2Req(token), fetchErr)]
  /\ UNCHANGED <<leads, now, tok, calls>>

MarkIssuedGetV3(r, token, updErr) ==
  /\ Free(r)
  /\ LET out == MarkIssuedGetV3Handler(leads, now, MarkIssuedGetV3Req(token), updErr)
     IN /\ leads' = out.leads
        /\ reqs' = [reqs EXCEPT ![r] = out.rep]
  /\ UNCHANGED <<now, tok, calls>>

\* ------------------------------------------- POST /confirm-issued/:token
ConfirmIssuedReq(token) ==
  [Blank EXCEPT !.route = "confirm-issued", !.token = token,
                !.leadId = DecodeFirstFiveSegments(token), !.status = "Issued"]

ConfirmIssuedLookup(ls, rq, fetchErr) ==
  IF Falsy(rq.leadId)
  THEN Page(rq, 400, "Invalid token")
  ELSE
    LET r1 == [rq EXCEPT !.store = <<"select loan_applications">>]
    IN IF fetchErr
       THEN Page(Failed(r1, "store"), 500, "Error marking issued")
       ELSE IF rq.leadId \notin DOMAIN ls
       THEN Page(r1, 500, "Error marking issued")
       ELSE [r1 EXCEPT !.pc = "fetched"]

ConfirmIssuedWrite(ls, t, rq, updErr, raced) ==
  LET r1 == [rq EXCEPT !.store = Append(rq.store, "update loan_applications"),
                       !.t = t, !.raced = raced]
  IN IF updErr
     THEN [leads |-> ls, rep |-> Page(Failed(r1, "store"), 500, "Error marking issued")]
     ELSE [leads |-> UpdateEq(ls, rq.leadId, [status |-> "Issued", issued_time |-> t]),
           rep |-> Page(r1, 200, "Loan Marked as Issued")]

ConfirmIssuedFetch(r, token, fetchErr) ==
  /\ Free(r)
  /\ reqs' = [reqs EXCEPT ![r] =
               ConfirmIssuedLookup(leads, ConfirmIssuedReq(token), fetchErr)]
  /\ UNCHANGED <<leads, now, tok, calls>>

ConfirmIssuedUpdate(r, updErr) ==
  /\ r \in DOMAIN reqs
  /\ reqs[r].pc = "fetched"
  /\ reqs[r].route = "confirm-issued"
  /\ LET raced == \E o \in DOMAIN reqs \ {r} :
                    /\ reqs[o].pc = "fetched"
                    /\ reqs[o].leadId = reqs[r].leadId
         out == ConfirmIssuedWrite(leads, now, reqs[r], updErr, raced)
     IN /\ leads' = out.leads
        /\ reqs' = [reqs EXCEPT ![r] = out.rep]
  /\ UNCHANGED <<now, tok, calls>>

\* ---------------------------------------------------- POST /send-template
SendTemplateReq(hasLead, lead, phone, email, type, company) ==
  [Blank EXCEPT !.route = "send-template", !.hasLead = hasLead,
                !.lead = IF hasLead THEN lead ELSE NoId,
                !.phone = hasLead /\ phone, !.email = hasLead /\ email,
                !.type = type, !.company = company]

\* for (const t of templates): one send per template whose channel has its
\* contact field in the request's lead.
RECURSIVE TemplatePlan(_, _)
TemplatePlan(rq, templates) ==
  IF templates = <<>> THEN <<>>
  ELSE (IF Head(templates) = "sms" /\ rq.phone
          THEN <<Msg("customer", "lead.phone_number", "sms", NoId)>>
        ELSE IF Head(templates) = "email" /\ rq.email
          THEN <<Msg("customer", "lead.email", "email", NoId)>>
        ELSE <<>>) \o TemplatePlan(rq, Tail(templates))

\* The result of the final update is not inspected: the handler answers 200
\* whether or not the store took it.
SendTemplateHandler(ls, t, rq, tmplErr, failAt, updErr) ==
  IF ~rq.hasLead \/ rq.type = NoVal \/ rq.company = NoVal
  THEN [leads |-> ls,
        rep |-> Json(rq, 400, "false", "Missing lead, type, or company_name")]
  ELSE
    LET templates == TemplateTable(rq.company, rq.type)
        r1 == [rq EXCEPT !.store = <<"select message_templates">>]
        planned == TemplatePlan(rq, templates)
        r2 == [r1 EXCEPT !.sends = Attempt(planned, failAt)]
        r3 == [r2 EXCEPT !.store = Append(r2.store, "update loan_applications")]
    IN IF tmplErr
       THEN [leads |-> ls,
             rep |-> Json(Failed(r1, "store"), 500, "false", "No templates found")]
       ELSE IF Len(templates) = 0
       THEN [leads |-> ls, rep |-> Json(r1, 500, "false", "No templates found")]
       ELSE IF Threw(planned, failAt)
       THEN [leads |-> ls,
             rep |-> Json(Failed(r2, "send"), 500, "false", "send failed")]
       ELSE IF updErr
       THEN [leads |-> ls, rep |-> Json(Failed(r3, "store"), 200, "true", "template sent")]
       ELSE [leads |-> UpdateEq(ls, rq.lead, [status |-> rq.type]),
             rep |-> Json(r3, 200, "true", "template sent")]

SendTemplate(r, hasLead, lead, phone, email, type, company, tmplErr, failAt, updErr) ==
  /\ Free(r)
  /\ LET out == SendTemplateHandler(leads, now,
                  SendTemplateReq(hasLead, lead, phone, email, type, company),
                  tmplErr, failAt, updErr)
     IN /\ leads' = out.leads
        /\ reqs' = [reqs EXCEPT ![r] = out.rep]
  /\ UNCHANGED <<now, tok, calls>>

\* ------------------------------------------------------ recipient queries
\* All orders in which a query without ORDER BY can return the rows S.
Orders(S) ==
  {f \in [1..Cardinality(S) -> S] : \A i, j \in DOMAIN f : f[i] = f[j] => i = j}

\* from("users").eq("company_name", c).eq("role", "admin")
\*   .eq("lead_notifications", true)
AdminsOf(company) ==
  {u \in DOMAIN UserTable :
     /\ UserTable[u].company_name = company
     /\ UserTable[u].role = "admin"
     /\ UserTable[u].lead_notifications}

\* from("users").eq("company_name", c).eq("branch", b).eq("role", "manager")
\*   .eq("lead_notifications", true)
ManagersOf(company, branch) ==
  {u \in DOMAIN UserTable :
     /\ UserTable[u].company_name = company
     /\ UserTable[u].branch = branch
     /\ UserTable[u].role = "manager"
     /\ UserTable[u].lead_notifications}

NobodyToNotifyUnchecked(rows) == FALSE
\* if (!rows?.length): the query returned no row.
NobodyToNotify(rows) == Len(rows) = 0

\* for (const u of rows): the SMS if u.phone, then the email if u.email.
RECURSIVE NotifyPlan(_)
NotifyPlan(rows) ==
  IF rows = <<>> THEN <<>>
  ELSE LET u == Head(rows)
       IN (IF UserTable[u].phone # NoVal
             THEN <<Msg(u, UserTable[u].phone, "sms", NoId)>> ELSE <<>>)
          \o (IF UserTable[u].email # NoVal
                THEN <<Msg(u, UserTable[u].email, "email", NoId)>> ELSE <<>>)
          \o NotifyPlan(Tail(rows))

\* ----------------------------------------------------- POST /lead-created
LeadCreatedReq(hasLead, company) ==
  [Blank EXCEPT !.route = "lead-created", !.hasLead = hasLead,
                !.company = IF hasLead THEN company ELSE NoVal]

LeadCreatedHandler(rq, rows, qErr, failAt) ==
  IF ~rq.hasLead \/ rq.company = NoVal
  THEN Json(rq, 400, "false", "Missing company_name")
  ELSE
    LET r1 == [rq EXCEPT !.store = <<"select users">>]
        planned == NotifyPlan(rows)
        r2 == [r1 EXCEPT !.sends = Attempt(planned, failAt)]
    IN IF qErr THEN Json(Failed(r1, "store"), 500, "false", "query failed")
       ELSE IF NobodyToNotify(rows) THEN Json(r1, 200, "true", "No admins to notify")
       ELSE IF Threw(planned, failAt)
       THEN Json(Failed(r2, "send"), 500, "false", "send failed")
       ELSE Json(r2, 200, "true", "Admin notifications sent")

LeadCreated(r, hasLead, company, qErr) ==
  /\ Free(r)
  /\ \E rows \in Orders(AdminsOf(company)) :
       \E failAt \in 0..Len(NotifyPlan(rows)) :
         reqs' = [reqs EXCEPT ![r] =
                    LeadCreatedHandler(LeadCreatedReq(hasLead, company),
                                       rows, qErr, failAt)]
  /\ UNCHANGED <<leads, now, tok, calls>>

\* ------------------------- POST /lead-created (first and third variant)
\* from("users").eq("company_name", c).eq("role", "manager")
ManagersOfCompany(company) ==
  {u \in DOMAIN UserTable :
     /\ UserTable[u].company_name = company
     /\ UserTable[u].role = "manager"}

LeadCreatedV1Req(hasLead, company) ==
  [Blank EXCEPT !.route = "lead-created (v1)", !.hasLead = hasLead,
                !.company = IF hasLead THEN company ELSE NoVal]

LeadCreatedV1Handler(rq, rows, qErr, failAt) ==
  IF ~rq.hasLead \/ rq.company = NoVal
  THEN Json(rq, 400, "false", "Missing company_name")
  ELSE
    LET r1 == [rq EXCEPT !.store = <<"select users">>]
        planned == NotifyPlan(rows)
        r2 == [r1 EXCEPT !.sends = Attempt(planned, failAt)]
    IN IF qErr THEN Json(Failed(r1, "store"), 500, "false", "query failed")
       ELSE IF NobodyToNotify(rows) THEN Json(r1, 200, "true", "No managers to notify")
       ELSE IF Threw(planned, failAt)
       THEN Json(Failed(r2, "send"), 500, "false", "send failed")
       ELSE Json(r2, 200, "true", "Notifications sent")

LeadCreatedV1(r, hasLead, company, qErr) ==
  /\ Free(r)
  /\ \E rows \in Orders(ManagersOfCompany(company)) :
       \E failAt \in 0..Len(NotifyPlan(rows)) :
         reqs' = [reqs EXCEPT ![r] =
                    LeadCreatedV1Handler(LeadCreatedV1Req(hasLead, company),
                                         rows, qErr, failAt)]
  /\ UNCHANGED <<leads, now, tok, calls>>

\* ---------------------------------------------------- POST /assign-branch
AssignBranchReq(leadId, branchId) ==
  [Blank EXCEPT !.route = "assign-branch", !.lead = leadId, !.branchId = branchId]

\* The managers the handler asks for once the update has returned the row.
BranchManagers(ls, leadId, branchId) ==
  IF leadId \in DOMAIN ls THEN ManagersOf(ls[leadId].company_name, branchId) ELSE {}

AssignBranchFieldsAndStatus(branchId) ==
  [assigned_branch |-> branchId, status |-> "In Progress"]
\* .update({ assigned_branch: branchId })
AssignBranchFields(branchId) == [assigned_branch |-> branchId]

\* .update().eq().select().single(): no row with that id is an error too.
AssignBranchHandler(ls, rq, rows, updErr, mgrErr, failAt) ==
  IF Falsy(rq.lead) \/ rq.branchId = NoVal
  THEN [leads |-> ls, rep |-> Json(rq, 400, "false", "Missing leadId or branchId")]
  ELSE
    LET r1 == [rq EXCEPT !.store = <<"update loan_applications">>]
        r2 == [r1 EXCEPT !.store = Append(r1.store, "select users")]
        planned == NotifyPlan(rows)
        r3 == [r2 EXCEPT !.sends = Attempt(planned, failAt)]
        ls2 == UpdateEq(ls, rq.lead, AssignBranchFields(rq.branchId))
    IN IF updErr
       THEN [leads |-> ls,
             rep |-> Json(Failed(r1, "store"), 500, "false", "update rejected")]
       ELSE IF rq.lead \notin DOMAIN ls
       THEN [leads |-> ls2, rep |-> Json(r1, 500, "false", "no row returned")]
       ELSE IF mgrErr
       THEN [leads |-> ls2,
             rep |-> Json(Failed(r2, "store"), 500, "false", "query failed")]
       ELSE IF NobodyToNotify(rows)
       THEN [leads |-> ls2,
             rep |-> Json(r2, 200, "true",
                          "Branch assigned successfully (no managers found for notification)")]
       ELSE IF Threw(planned, failAt)
       THEN [leads |-> ls2,
             rep |-> Json(Failed(r3, "send"), 500, "false", "send failed")]
       ELSE [leads |-> ls2,
             rep |-> Json(r3, 200, "true", "Branch assigned and managers notified")]

AssignBranch(r, leadId, branchId, updErr, mgrErr) ==
  /\ Free(r)
  /\ \E rows \in Orders(BranchManagers(leads, leadId, branchId)) :
       \E failAt \in 0..Len(NotifyPlan(rows)) :
         LET out == AssignBranchHandler(leads, AssignBranchReq(leadId, branchId),
                                        rows, updErr, mgrErr, failAt)
         IN /\ leads' = out.leads
            /\ reqs' = [reqs EXCEPT ![r] = out.rep]
  /\ UNCHANGED <<now, tok, calls>>

\* -------------------------------------------------------- POST /call-lead
\* const lead = req.body || {}: nothing is required of the body.
CallLeadReq(hasLead, lead, phone) ==
  [Blank EXCEPT !.route = "call-lead", !.hasLead = hasLead,
                !.lead = IF hasLead THEN lead ELSE NoId,
                !.phone = hasLead /\ phone]

\* axios.post("https://api.vapi.ai/call", ...): the 500 body has no success
\* field.
CallLeadHandler(rq, apiErr) ==
  LET r1 == [rq EXCEPT !.voice = 1]
  IN IF apiErr
     THEN [r1 EXCEPT !.pc = "done", !.failed = "voice", !.code = 500,
                     !.kind = "json", !.msg = "call failed"]
     ELSE Json(r1, 200, "true", "call placed")

CallLead(r, hasLead, lead, phone, apiErr) ==
  /\ Free(r)
  /\ reqs' = [reqs EXCEPT ![r] = CallLeadHandler(CallLeadReq(hasLead, lead, phone), apiErr)]
  /\ UNCHANGED <<leads, now, tok, calls>>

\* ------------------------------------------ GET /avg-tti (first variant)
AvgTtiReq(company, branch) ==
  [Blank EXCEPT !.route = "avg-tti", !.company = company, !.branchId = branch]

AvgTtiQueryAnyStatus(ls, rq) ==
  {i \in DOMAIN ls :
     /\ rq.company # NoVal => ls[i].company_name = rq.company
     /\ rq.branchId # NoVal => ls[i].assigned_branch = rq.branchId}
\* .eq("status", "Issued"), then .eq("company_name", ...) and
\* .eq("assigned_branch", ...) when the query string gives them.
AvgTtiQuery(ls, rq) ==
  {i \in DOMAIN ls :
     /\ ls[i].status = "Issued"
     /\ rq.company # NoVal => ls[i].company_name = rq.company
     /\ rq.branchId # NoVal => ls[i].assigned_branch = rq.branchId}

\* results[agent].push(diffMs): results keeps its keys in insertion order.
Push(results, agent, diffMs) ==
  IF \E k \in DOMAIN results : results[k].agent = agent
  THEN [k \in DOMAIN results |->
          IF results[k].agent = agent
          THEN [results[k] EXCEPT !.times = Append(@, diffMs)]
          ELSE results[k]]
  ELSE Append(results, [agent |-> agent, times |-> <<diffMs>>])

\* data.forEach((row) => { if (agent && assigned_time && issued_time) ... })
RECURSIVE Collect(_, _, _)
Collect(ls, rows, results) ==
  IF rows = <<>> THEN results
  ELSE LET row == ls[Head(rows)]
       IN Collect(ls, Tail(rows),
            IF /\ row.assigned_agent # NoVal
               /\ row.assigned_time # NoTime
               /\ row.issued_time # NoTime
            THEN Push(results, row.assigned_agent,
                      row.issued_time - row.assigned_time)
            ELSE results)

\* times.reduce((a, b) => a + b, 0)
RECURSIVE Reduce(_)
Reduce(times) == IF times = <<>> THEN 0 ELSE Head(times) + Reduce(Tail(times))

MsPerMinute == 1000 * 60
MsPerHour == 1000 * 60 * 60
MsPerDay == 1000 * 60 * 60 * 24
\* Math.floor(a / b) and JavaScript's a % b (the sign of a), b > 0, on the
\* exact quotient.
Floor(a, b) == IF a >= 0 THEN a \div b ELSE -((-a + b - 1) \div b)
Trunc(a, b) == IF a >= 0 THEN a \div b ELSE -((-a) \div b)
Rem(a, b) == a - b * Trunc(a, b)

\* avg = sum / n, then days, hours and mins of `${days}d ${hours}h ${mins}m`.
\* avg is kept as the fraction sum / n: x / n is divided by b as x over n * b.
Render(sum, n) ==
  [d |-> Floor(sum, n * MsPerDay),
   h |-> Floor(Rem(sum, n * MsPerDay), n * MsPerHour),
   m |-> Floor(Rem(sum, n * MsPerHour), n * MsPerMinute)]

\* Object.entries(results).map(([agent, times]) => ...)
Formatted(results) ==
  [k \in DOMAIN results |->
     [assigned_agent |-> results[k].agent,
      avg_tti |-> Render(Reduce(results[k].times), Len(results[k].times))]]

AvgTtiHandler(ls, rq, rows, qErr) ==
  LET r1 == [rq EXCEPT !.store = <<"select loan_applications">>]
  IN IF qErr
     THEN Json(Failed(r1, "store"), 500, "false", "query failed")
     ELSE Json([r1 EXCEPT !.data = Formatted(Collect(ls, rows, <<>>))],
               200, "true", "data")

AvgTti(r, company, branch, qErr) ==
  /\ Free(r)
  /\ \E rows \in Orders(AvgTtiQuery(leads, AvgTtiReq(company, branch))) :
       reqs' = [reqs EXCEPT ![r] =
                  AvgTtiHandler(leads, AvgTtiReq(company, branch), rows, qErr)]
  /\ UNCHANGED <<leads, now, tok, calls>>

\* ---------------------------------------------------- POST /vapi/callback
\* const leadId = event.metadata?.lead_id
VapiCallbackReq(leadId) ==
  [Blank EXCEPT !.route = "vapi/callback", !.leadId = leadId]

VapiCallbackStatusOnError(rq, insErr) == IF insErr THEN 500 ELSE 200
\* The catch of the insert only logs: the response after it is the same.
VapiCallbackStatus(rq, insErr) == 200

\* calls is table voice_call_1, a row standing for its lead_id.
VapiCallbackHandler(cs, rq, insErr) ==
  IF Falsy(rq.leadId)
  THEN [calls |-> cs, rep |-> Status(rq, 200)]
  ELSE
    LET r1 == [rq EXCEPT !.store = <<"insert voice_call_1">>]
    IN IF insErr
       THEN [calls |-> cs,
             rep |-> Status(Failed(r1, "store"), VapiCallbackStatus(r1, insErr))]
       ELSE [calls |-> cs \cup {rq.leadId},
             rep |-> Status(r1, VapiCallbackStatus(r1, insErr))]

VapiCallback(r, leadId, insErr) ==
  /\ Free(r)
  /\ LET out == VapiCallbackHandler(calls, VapiCallbackReq(leadId), insErr)
     IN /\ calls' = out.calls
        /\ reqs' = [reqs EXCEPT ![r] = out.rep]
  /\ UNCHANGED <<leads, now, tok>>

\* ------------------------------------------------------ end of a request
\* The response is out and the request is over: the slot is free again.
Finish(r) ==
  /\ r \in DOMAIN reqs
  /\ reqs[r].pc = "done"
  /\ reqs' = [reqs EXCEPT ![r] = Blank]
  /\ UNCHANGED <<leads, now, tok, calls>>

\* ----------------------------------------------------------------- clock
Tick ==
  /\ now < MaxTime
  /\ now' = now + 1
  /\ UNCHANGED <<leads, reqs, tok, calls>>

\* ----------------------------------------------------------- request sets
BodyLeadIds == {L1, Lx}
AgentIds == {NoVal, "A1", "A2", "A9"}
QueryStatuses == {NoVal, "Issued", "Agent Declined", "Unable to Contact",
                  "No Longer Needed"}
TemplateTypes == {NoVal, "Issued", "Follow Up", "Agent Declined"}
\* The statuses the lead lifecycle names.
StatusDomain ==
  {"New", "In Progress", "Issued", "Agent Declined", "Unable to Contact",
   "No Longer Needed"}
Companies == {NoVal, "Acme", "Other", "Nobody"}
BranchIds == {NoVal, "B1", "B2", "B3"}
\* The lead object of a request body: absent, or its id and which contact
\* fields it carries.
LeadBodies ==
  {[has |-> FALSE, id |-> NoId, phone |-> FALSE, email |-> FALSE]} \cup
  {[has |-> TRUE, id |-> i, phone |-> p, email |-> e] :
     i \in BodyLeadIds, p \in BOOLEAN, e \in BOOLEAN}
\* Tokens a client can put in the URL: the issued ones, and malformed ones.
IssuedTokens == {generateIssueToken(id, n) : id \in BodyLeadIds, n \in Nonces}
MalformedTokens == {<<"a">>, <<"a", Dash, "f">>, <<Dash, "a">>}
UrlTokens == IssuedTokens \cup MalformedTokens

NoTok == [pc |-> "none", id |-> NoId, nonce |-> NoId, token |-> NoId,
          first5 |-> NoId, lastDash |-> NoId, firstSeg |-> NoId]

Init ==
  /\ leads = [i \in {L1} |-> NewLead("Acme")]
  /\ now = 0
  /\ reqs = [r \in {1} |-> Blank]
  /\ tok = NoTok
  /\ calls = {}

\* The environment fails at most one of the external calls a handler makes:
\* every handler stops at its first failed call, or makes none after it.  f
\* numbers the calls in program order (0: none fails); First(f, k) says call
\* k is the one, Within(f, a, b) which of calls a..b it is (0: none of them).
First(f, k) == f = k
Within(f, a, b) == IF f >= a /\ f <= b THEN f - a + 1 ELSE 0

Next ==
  \/ \E r \in DOMAIN reqs : Free(r) /\
       \E lead \in BodyLeadIds \cup {NoId}, agentId \in AgentIds,
          nonce \in Nonces, f \in 0..4 :
         AssignLead(r, lead # NoId, lead, agentId, nonce,
                    First(f, 1), Within(f, 2, 3), First(f, 4))
  \/ \E r \in DOMAIN reqs : Free(r) /\
       \E lead \in BodyLeadIds \cup {NoId}, f \in 0..1 :
         MarkIssued(r, lead # NoId, lead, First(f, 1))
  \/ \E r \in DOMAIN reqs : Free(r) /\
       \E token \in UrlTokens, status \in QueryStatuses, f \in 0..1 :
         ConfirmStatusFetch(r, token, status, First(f, 1))
  \/ \E r \in DOMAIN reqs, f \in 0..1 : ConfirmStatusUpdate(r, First(f, 1))
  \/ \E r \in DOMAIN reqs : Free(r) /\
       \E body \in LeadBodies, type \in TemplateTypes,
          company \in {NoVal, "Acme"}, f \in 0..4 :
         SendTemplate(r, body.has, body.id, body.phone, body.email, type, company,
                      First(f, 1), Within(f, 2, 3), First(f, 4))
  \/ \E r \in DOMAIN reqs : Free(r) /\
       \E company \in Companies \cup {"no record"}, f \in 0..1 :
         LeadCreated(r, company # "no record", company, First(f, 1))
  \/ \E r \in DOMAIN reqs : Free(r) /\
       \E company \in Companies \cup {"no record"}, f \in 0..1 :
         LeadCreatedV1(r, company # "no record", company, First(f, 1))
  \/ \E r \in DOMAIN reqs : Free(r) /\
       \E leadId \in BodyLeadIds \cup {NoId}, branchId \in BranchIds, f \in 0..2 :
         AssignBranch(r, leadId, branchId, First(f, 1), First(f, 2))
  \/ \E r \in DOMAIN reqs : Free(r) /\
       \E body \in LeadBodies, f \in 0..1 :
         CallLead(r, body.has, body.id, body.phone, First(f, 1))
  \/ \E r \in DOMAIN reqs : Free(r) /\
       \E token \in UrlTokens, f \in 0..1 : MarkIssuedPageV1(r, token, First(f, 1))
  \/ \E r \in DOMAIN reqs : Free(r) /\
       \E token \in UrlTokens, f \in 0..1 : MarkIssuedPageV2(r, token, First(f, 1))
  \/ \E r \in DOMAIN reqs : Free(r) /\
       \E token \in UrlTokens, f \in 0..1 : MarkIssuedGetV3(r, token, First(f, 1))
  \/ \E r \in DOMAIN reqs : Free(r) /\
       \E token \in UrlTokens, f \in 0..1 : ConfirmIssuedFetch(r, token, First(f, 1))
  \/ \E r \in DOMAIN reqs, f \in 0..1 : ConfirmIssuedUpdate(r, First(f, 1))
  \/ \E r \in DOMAIN reqs : Free(r) /\
       \E leadId \in {NoId, L1}, f \in 0..1 : VapiCallback(r, leadId, First(f, 1))
  \/ \E r \in DOMAIN reqs : Free(r) /\
       \E company \in {NoVal, "Acme", "Other"}, branch \in {NoVal, "B1"}, f \in 0..1 :
         AvgTti(r, company, branch, First(f, 1))
  \/ \E r \in DOMAIN reqs : Finish(r)
  \/ Tick

Spec == Init /\ [][Next]_vars

\* ------------------------------------------- the token codec on its own
\* tok holds one identifier and one nonce, the token made of them and what
\* each of the three decoders of the source makes of that token.
TokIssue ==
  /\ tok.pc = "input"
  /\ tok' = [tok EXCEPT !.pc = "issued",
                         !.token = generateIssueToken(tok.id, tok.nonce)]
  /\ UNCHANGED <<leads, now, reqs, calls>>

TokDecode ==
  /\ tok.pc = "issued"
  /\ tok' = [tok EXCEPT !.pc = "decoded",
                         !.first5 = DecodeFirstFiveSegments(tok.token),
                         !.lastDash = DecodeBeforeLastDash(tok.token),
                         !.firstSeg = DecodeFirstSegment(tok.token)]
  /\ UNCHANGED <<leads, now, reqs, calls>>

InitToken ==
  /\ leads = [i \in {L1} |-> NewLead("Acme")]
  /\ now = 0
  /\ reqs = [r \in {1} |-> Blank]
  /\ tok \in {[NoTok EXCEPT !.pc = "input", !.id = i, !.nonce = n] :
               i \in Uuids, n \in Nonces}
  /\ calls = {}

NextToken == TokIssue \/ TokDecode

SpecToken == InitToken /\ [][NextToken]_vars

\* ------------------------------- two confirm-status requests in flight
\* Two requests, one per slot, both POST /confirm-status/:token with tokens
\* issued for the stored lead: each handler is suspended at the await
\* between its lookup and its update, where the other may run.
RaceTokens == {generateIssueToken(L1, n) : n \in Nonces}

InitRace ==
  /\ leads = [i \in {L1} |-> NewLead("Acme")]
  /\ now = 0
  /\ reqs = [r \in {1, 2} |-> Blank]
  /\ tok = NoTok
  /\ calls = {}

NextRace ==
  \/ \E r \in DOMAIN reqs : Free(r) /\
       \E token \in RaceTokens, status \in QueryStatuses, f \in 0..1 :
         ConfirmStatusFetch(r, token, status, First(f, 1))
  \/ \E r \in DOMAIN reqs, f \in 0..1 : ConfirmStatusUpdate(r, First(f, 1))
  \/ Tick

SpecRace == InitRace /\ [][NextRace]_vars

\* ------------------------------------------- avg-tti over a drawn table
\* The table holds MaxRows leads of one company, each with any agent, a
\* status that is or is not Issued, and timestamps that are null or not:
\* the rows the lifecycle handlers can leave (a lead marked issued before it
\* was assigned again has issued_time before assigned_time).
TtiIdSeq ==
  <<L1, Lx,
    Join(<<Rep("a"), Rep("f"), Rep("a"), Rep("f"), Rep("a")>>),
    Join(<<Rep("f"), Rep("a"), Rep("f"), Rep("a"), Rep("f")>>)>>
TtiIds == {TtiIdSeq[i] : i \in 1..Min(MaxRows, Len(TtiIdSeq))}
TtiRows ==
  [status : {"Issued", "In Progress"}, company_name : {"Acme"},
   assigned_agent : {NoVal, "Alice", "Bob"}, assigned_branch : {NoVal},
   assigned_time : {NoTime, 0, MsPerMinute + 1001},
   issued_time : {NoTime, 0, MsPerDay + MsPerHour + MsPerMinute + 1000}]

InitTti ==
  /\ leads \in [TtiIds -> TtiRows]
  /\ now = 0
  /\ reqs = [r \in {1} |-> Blank]
  /\ tok = NoTok
  /\ calls = {}

NextTti ==
  \/ \E r \in DOMAIN reqs : Free(r) /\
       \E f \in 0..1 : AvgTti(r, NoVal, NoVal, First(f, 1))
  \/ \E r \in DOMAIN reqs : Finish(r)

SpecTti == InitTti /\ [][NextTti]_vars

\* ------------------------------ the company filter of avg-tti on its own
\* Company names here are character strings over NameChars, so that
\* trimming and lower-casing act on them; "" stands for a missing name too.
NameChars == {"A", "a", " "}
Names == UNION {StringsOf(NameChars, n) : n \in 0..MaxNameLen}

\* String.prototype.trim() and String.prototype.toLowerCase()
RECURSIVE TrimStart(_)
TrimStart(s) == IF s # <<>> /\ Head(s) = " " THEN TrimStart(Tail(s)) ELSE s
RECURSIVE TrimEnd(_)
TrimEnd(s) ==
  IF s # <<>> /\ s[Len(s)] = " " THEN TrimEnd(SubSeq(s, 1, Len(s) - 1)) ELSE s
Trim(s) == TrimEnd(TrimStart(s))
ToLowerCase(s) == [i \in DOMAIN s |-> IF s[i] = "A" THEN "a" ELSE s[i]]

\* The rows the store returns (loan_applications rows to the first
\* variant, the rows of rpc("get_avg_tti") to the second), in table order.
FilterTable ==
  << [company_name |-> <<"A">>, assigned_branch |-> "B1"],
     [company_name |-> <<"a">>, assigned_branch |-> "B2"],
     [company_name |-> <<" ", "a">>, assigned_branch |-> "B1"],
     [company_name |-> <<"A", "A">>, assigned_branch |-> NoVal],
     [company_name |-> <<>>, assigned_branch |-> "B1"] >>

\* First variant: if (company_name) query.eq("company_name", company_name);
\* if (branch_id) query.eq("assigned_branch", branch_id).
AvgTtiV1Match(row, company, branch) ==
  /\ Falsy(company) \/ row.company_name = company
  /\ branch = NoVal \/ row.assigned_branch = branch

\* Second variant: companyMatch && branchMatch of data.filter.
AvgTtiV2Match(row, company, branch) ==
  /\ \/ Falsy(company)
     \/ /\ ~Falsy(row.company_name)
        /\ ToLowerCase(Trim(row.company_name)) = ToLowerCase(Trim(company))
  /\ \/ branch = NoVal
     \/ /\ row.assigned_branch # NoVal
        /\ row.assigned_branch = branch

AvgTtiFilterReq(variant, company, branch) ==
  [Blank EXCEPT !.route = variant, !.company = company, !.branchId = branch]

\* The request slot ends holding the positions of the rows answered.
AvgTtiV1Filter(r, company, branch) ==
  /\ Free(r)
  /\ reqs' = [reqs EXCEPT ![r] =
       Json([AvgTtiFilterReq("avg-tti (v1)", company, branch) EXCEPT
               !.store = <<"select loan_applications">>,
               !.data = SelectSeq([i \in DOMAIN FilterTable |-> i],
                          LAMBDA i : AvgTtiV1Match(FilterTable[i], company, branch))],
            200, "true", "data")]
  /\ UNCHANGED <<leads, now, tok, calls>>

AvgTtiV2Filter(r, company, branch) ==
  /\ Free(r)
  /\ reqs' = [reqs EXCEPT ![r] =
       Json([AvgTtiFilterReq("avg-tti (v2)", company, branch) EXCEPT
               !.store = <<"rpc get_avg_tti">>,
               !.data = SelectSeq([i \in DOMAIN FilterTable |-> i],
                          LAMBDA i : AvgTtiV2Match(FilterTable[i], company, branch))],
            200, "true", "data")]
  /\ UNCHANGED <<leads, now, tok, calls>>

InitFilter ==
  /\ leads = [i \in {L1} |-> NewLead("Acme")]
  /\ now = 0
  /\ reqs = [r \in {1, 2} |-> Blank]
  /\ tok = NoTok
  /\ calls = {}

NextFilter ==
  \/ \E r \in DOMAIN reqs : Free(r) /\
       \E company \in Names, branch \in {NoVal, "B1"} :
         AvgTtiV1Filter(r, company, branch)
  \/ \E r \in DOMAIN reqs : Free(r) /\
       \E company \in Names, branch \in {NoVal, "B1"} :
         AvgTtiV2Filter(r, company, branch)

SpecFilter == InitFilter /\ [][NextFilter]_vars

\* ---------------------------------------- POST /call-lead: the number dialed
\* lead.phone_number as typed: digits, and "+" for every other character.
PhoneChars == {"0", "4", "7", "+"}
IsDigit(c) == c \in {"0", "4", "7"}
Phones == UNION {StringsOf(PhoneChars, n) : n \in 0..MaxPhoneLen}

\* digits.startsWith(prefix)
StartsWith(s, prefix) ==
  /\ Len(s) >= Len(prefix)
  /\ SubSeq(s, 1, Len(prefix)) = prefix

\* String(n).replace(/\D/g, "") drops everything but digits before the
\* prefixes are looked at.
toE164UK(n) ==
  IF Falsy(n) THEN n
  ELSE LET digits == SelectSeq(n, IsDigit)
       IN IF StartsWith(digits, <<"4", "4">>) THEN <<"+">> \o digits
          ELSE IF StartsWith(digits, <<"0">>)
               THEN <<"+", "4", "4">> \o SubSeq(digits, 2, Len(digits))
          ELSE IF StartsWith(digits, <<"+">>) THEN digits
          ELSE <<"+", "4", "4">> \o digits

\* const phone = toE164UK(lead.phone_number); customer: { number: phone }
CallLeadDial(r, n, apiErr) ==
  /\ Free(r)
  /\ reqs' = [reqs EXCEPT ![r] =
       [CallLeadHandler(CallLeadReq(TRUE, L1, ~Falsy(n)), apiErr)
          EXCEPT !.number = n, !.dialed = toE164UK(n)]]
  /\ UNCHANGED <<leads, now, tok, calls>>

InitPhone ==
  /\ leads = [i \in {L1} |-> NewLead("Acme")]
  /\ now = 0
  /\ reqs = [r \in {1} |-> Blank]
  /\ tok = NoTok
  /\ calls = {}

NextPhone ==
  \E r \in DOMAIN reqs : \E n \in Phones, apiErr \in BOOLEAN :
    CallLeadDial(r, n, apiErr)

SpecPhone == InitPhone /\ [][NextPhone]_vars

\* ------------------------------------------- overwriting a lead's status
\* The four handlers that write status, on the stored lead, with every
\* status of the lifecycle in confirm-status's query string.
NextOverwrite ==
  \/ \E r \in DOMAIN reqs : Free(r) /\
       \E agentId \in AgentIds, nonce \in Nonces, updErr \in BOOLEAN :
         AssignLead(r, TRUE, L1, agentId, nonce, FALSE, 0, updErr)
  \/ \E r \in DOMAIN reqs : Free(r) /\
       \E updErr \in BOOLEAN : MarkIssued(r, TRUE, L1, updErr)
  \/ \E r \in DOMAIN reqs : Free(r) /\
       \E type \in TemplateTypes, updErr \in BOOLEAN :
         SendTemplate(r, TRUE, L1, TRUE, TRUE, type, "Acme", FALSE, 0, updErr)
  \/ \E r \in DOMAIN reqs : Free(r) /\
       \E nonce \in Nonces, status \in StatusDomain \cup {NoVal} :
         ConfirmStatusFetch(r, generateIssueToken(L1, nonce), status, FALSE)
  \/ \E r \in DOMAIN reqs, updErr \in BOOLEAN : ConfirmStatusUpdate(r, updErr)
  \/ \E r \in DOMAIN reqs : Finish(r)
  \/ Tick

SpecOverwrite == Init /\ [][NextOverwrite]_vars

\* ================================================================ claims
Range(seq) == {seq[i] : i \in DOMAIN seq}
TokenRoutes == {"GET mark-issued (v1)", "GET mark-issued (v2)",
                "GET mark-issued (v3)", "confirm-issued", "confirm-status"}
UpdateIssued(q) == "update loan_applications" \in Range(q.store)
Attempted(q, u, channel) ==
  \E i \in DOMAIN q.sends : q.sends[i].rcpt = u /\ q.sends[i].channel = channel

\* C1: for every canonical identifier id and every nonce, each decoder of a
\* token route (first five segments, before the last dash, first segment)
\* returns id from generateIssueToken(id, nonce).
C1_RoundTripEveryRoute ==
  tok.pc = "decoded" =>
    /\ tok.first5 = tok.id
    /\ tok.lastDash = tok.id
    /\ tok.firstSeg = tok.id

\* C2: a token route given a token shorter than a well-formed identifier
\* answers 400 "Invalid token" and makes no store call.
C2_ShortTokenRejected ==
  \A r \in DOMAIN reqs :
    (/\ reqs[r].pc # "idle"
     /\ reqs[r].route \in TokenRoutes
     /\ Len(reqs[r].token) < UuidLen)
    => /\ reqs[r].pc = "done"
       /\ reqs[r].code = 400
       /\ reqs[r].msg = "Invalid token"
       /\ reqs[r].store = <<>>

\* The users (or the agent) a notifying handler resolved for request q, and
\* the contact fields each has.
Recipients(q) ==
  CASE q.route = "lead-created" -> AdminsOf(q.company)
    [] q.route = "assign-branch" -> BranchManagers(leads, q.lead, q.branchId)
    [] OTHER -> {q.agentId}
HasPhone(q, u) ==
  IF q.route = "assign-lead" THEN TRUE ELSE UserTable[u].phone # NoVal
HasEmail(q, u) ==
  IF q.route = "assign-lead" THEN TRUE ELSE UserTable[u].email # NoVal

\* C3: in lead-created, assign-branch and assign-lead, when one recipient's
\* SMS fails, that recipient's email and every other recipient's SMS and
\* email are still attempted.
C3_ChannelIsolation ==
  \A r \in DOMAIN reqs :
    LET q == reqs[r]
    IN (/\ q.pc = "done"
        /\ q.route \in {"lead-created", "assign-branch", "assign-lead"}
        /\ \E i \in DOMAIN q.sends :
             q.sends[i].channel = "sms" /\ ~q.sends[i].ok)
       => \A u \in Recipients(q) :
            /\ HasPhone(q, u) => Attempted(q, u, "sms")
            /\ HasEmail(q, u) => Attempted(q, u, "email")

\* C4: in assign-lead with an existing agent, a failed SMS or email send does
\* not stop the handler: it still issues the lead update and, the update
\* succeeding, answers with success.
C4_BestEffortDelivery ==
  \A r \in DOMAIN reqs :
    (/\ reqs[r].pc = "done"
     /\ reqs[r].route = "assign-lead"
     /\ reqs[r].failed = "send")
    => /\ UpdateIssued(reqs[r])
       /\ reqs[r].code = 200
       /\ reqs[r].success = "true"

\* C5: assign-lead with a lead and an existing agent, no call failing, sends
\* exactly one SMS and one email, both to that agent and both carrying the
\* same link built from one token of the lead's id, and leaves the lead row
\* In Progress with the agent's name and the assignment time.
C5_AssignLeadHappyPath ==
  \A r \in DOMAIN reqs :
    LET q == reqs[r]
    IN (/\ q.pc = "done"
        /\ q.route = "assign-lead"
        /\ q.hasLead
        /\ q.agentId \in DOMAIN AgentTable
        /\ q.failed = "none")
       => /\ q.code = 200 /\ q.success = "true"
          /\ Len(q.sends) = 2
          /\ Cardinality({i \in DOMAIN q.sends : q.sends[i].channel = "sms"}) = 1
          /\ Cardinality({i \in DOMAIN q.sends : q.sends[i].channel = "email"}) = 1
          /\ \A i \in DOMAIN q.sends :
               /\ q.sends[i].rcpt = q.agentId
               /\ q.sends[i].ok
               /\ q.sends[i].to = IF q.sends[i].channel = "sms"
                                  THEN AgentTable[q.agentId].phone
                                  ELSE AgentTable[q.agentId].email
               /\ q.sends[i].link = q.sends[1].link
          /\ \E n \in Nonces : q.sends[1].link = generateIssueToken(q.lead, n)
          /\ q.t \in 0..MaxTime
          /\ q.lead \in DOMAIN leads =>
               /\ leads[q.lead].status = "In Progress"
               /\ leads[q.lead].assigned_agent = AgentTable[q.agentId].name
               /\ leads[q.lead].assigned_time = q.t

C5_Witness ==
  \E r \in DOMAIN reqs :
    /\ reqs[r].pc = "done"
    /\ reqs[r].route = "assign-lead"
    /\ reqs[r].code = 200
    /\ reqs[r].lead = L1
    /\ reqs[r].agentId = "A1"
    /\ leads[L1].assigned_agent = "Alice"
    /\ leads[L1].assigned_time = 1

\* The lookup of request q finds nothing: the agent of assign-lead, the
\* templates of send-template, the lead of confirm-status and confirm-issued.
NotFoundCase(q) ==
  \/ /\ q.route = "assign-lead"
     /\ q.hasLead /\ q.agentId # NoVal
     /\ q.agentId \notin DOMAIN AgentTable
  \/ /\ q.route = "send-template"
     /\ q.hasLead /\ q.type # NoVal /\ q.company # NoVal
     /\ TemplateTable(q.company, q.type) = <<>>
  \/ /\ q.route \in {"confirm-status", "confirm-issued"}
     /\ ~Falsy(q.leadId)
     /\ q.leadId \notin DOMAIN leads

\* C6: a handler whose lookup finds nothing answers with a failure in that
\* same step, having sent nothing and issued no lead update; the leads table
\* is as it was.
C6_NotFoundAborts ==
  [][\A r \in DOMAIN reqs :
       (/\ reqs[r].pc = "idle"
        /\ reqs'[r].pc # "idle"
        /\ NotFoundCase(reqs'[r]))
       => /\ reqs'[r].pc = "done"
          /\ reqs'[r].code = 500
          /\ reqs'[r].success # "true"
          /\ reqs'[r].sends = <<>>
          /\ ~UpdateIssued(reqs'[r])
          /\ leads' = leads]_vars

C6_Witness ==
  \E r \in DOMAIN reqs :
    /\ reqs[r].pc = "done"
    /\ reqs[r].route = "confirm-status"
    /\ reqs[r].failed = "none"
    /\ NotFoundCase(reqs[r])
    /\ reqs[r].leadId = Lx

\* A required field is missing from the body of request q.
MissingField(q) ==
  \/ q.route = "assign-lead" /\ (~q.hasLead \/ q.agentId = NoVal)
  \/ q.route = "send-template" /\ (~q.hasLead \/ q.type = NoVal \/ q.company = NoVal)
  \/ q.route = "mark-issued" /\ Falsy(q.lead)
  \/ q.route = "lead-created" /\ (~q.hasLead \/ q.company = NoVal)
  \/ q.route = "assign-branch" /\ (Falsy(q.lead) \/ q.branchId = NoVal)
  \/ q.route = "call-lead" /\ (~q.hasLead \/ ~q.phone)

\* C7: every API route answers a body that lacks a required field with 400
\* and makes no store call, no send and no voice call for it.
C7_ValidationRejects ==
  \A r \in DOMAIN reqs :
    (reqs[r].pc = "done" /\ MissingField(reqs[r]))
    => /\ reqs[r].code = 400
       /\ reqs[r].store = <<>>
       /\ reqs[r].sends = <<>>
       /\ reqs[r].voice = 0

\* C8: confirm-status with a token whose lead exists and status s, no store
\* call failing, leaves the lead with status s and issued_time the clock
\* reading the handler took, and answers with the confirmation page.
C8_ConfirmStatusApplies ==
  \A r \in DOMAIN reqs :
    LET q == reqs[r]
    IN (/\ q.pc = "done"
        /\ q.route = "confirm-status"
        /\ q.leadId \in DOMAIN leads
        /\ q.failed = "none")
       => /\ q.code = 200 /\ q.kind = "html" /\ q.msg = "Status Updated"
          /\ q.t \in 0..MaxTime
          /\ leads[q.leadId].status = q.status
          /\ leads[q.leadId].issued_time = q.t

\* The lead was never assigned (so it was not In Progress) and is Agent
\* Declined now, at clock reading 1.
C8_Witness ==
  \E r \in DOMAIN reqs :
    /\ reqs[r].pc = "done"
    /\ reqs[r].route = "confirm-status"
    /\ reqs[r].code = 200
    /\ reqs[r].status = "Agent Declined"
    /\ leads[L1].status = "Agent Declined"
    /\ leads[L1].assigned_time = NoTime
    /\ leads[L1].issued_time = 1

\* C9: two confirm-status requests for the same token with different
\* statuses, no store call failing: both answer 200 and the lead's status is
\* one of the two.
C9_LastWriteWins ==
  \A a, b \in DOMAIN reqs :
    (/\ a # b
     /\ reqs[a].pc = "done" /\ reqs[b].pc = "done"
     /\ reqs[a].token = reqs[b].token
     /\ reqs[a].status # reqs[b].status
     /\ reqs[a].failed = "none" /\ reqs[b].failed = "none")
    => /\ reqs[a].code = 200 /\ reqs[b].code = 200
       /\ leads[reqs[a].leadId].status \in {reqs[a].status, reqs[b].status}

\* Both ran between each other's lookup and update; the one that asked for
\* Issued wrote first and Agent Declined is the final status.
C9_Witness ==
  \E a, b \in DOMAIN reqs :
    /\ a # b
    /\ reqs[a].pc = "done" /\ reqs[b].pc = "done"
    /\ reqs[a].code = 200 /\ reqs[b].code = 200
    /\ reqs[a].token = reqs[b].token
    /\ reqs[a].status = "Issued" /\ reqs[b].status = "Agent Declined"
    /\ reqs[a].raced
    /\ leads[L1].status = "Agent Declined"

\* The same race with the other outcome: Agent Declined wrote first and
\* Issued is the final status.
C9_WitnessOtherOrder ==
  \E a, b \in DOMAIN reqs :
    /\ a # b
    /\ reqs[a].pc = "done" /\ reqs[b].pc = "done"
    /\ reqs[a].code = 200 /\ reqs[b].code = 200
    /\ reqs[a].token = reqs[b].token
    /\ reqs[a].status = "Issued" /\ reqs[b].status = "Agent Declined"
    /\ reqs[b].raced
    /\ leads[L1].status = "Issued"

Terminal == {"Issued", "Agent Declined", "Unable to Contact", "No Longer Needed"}

\* C10: after every step, a lead with issued_time set has assigned_time set,
\* and a step that changes issued_time leaves the lead in one of Issued,
\* Agent Declined, Unable to Contact, No Longer Needed.
C10_IssuedTimeDiscipline ==
  [][\A i \in DOMAIN leads :
       /\ leads'[i].issued_time # NoTime => leads'[i].assigned_time # NoTime
       /\ leads'[i].issued_time # leads[i].issued_time
            => leads'[i].status \in Terminal]_vars

\* C11: once a confirm-status request with a token has answered success, its
\* update made while no other request was suspended on the lead, a request
\* with the same token that started after it does not change the lead's
\* status or issued_time.  (Under SpecRace no slot is freed: the other slot,
\* not suspended when the first wrote, had not started.)
C11_SingleUseLink ==
  [][\A a, b \in DOMAIN reqs :
       (/\ a # b
        /\ reqs[a].pc = "done" /\ reqs[a].route = "confirm-status"
        /\ reqs[a].code = 200 /\ ~reqs[a].raced
        /\ reqs[b].pc = "fetched"
        /\ reqs[b].token = reqs[a].token)
       => /\ leads'[reqs[a].leadId].status = leads[reqs[a].leadId].status
          /\ leads'[reqs[a].leadId].issued_time = leads[reqs[a].leadId].issued_time]_vars

\* Request q is a send-template whose template lookup returned at least one
\* template.
TemplatesFound(q) ==
  /\ q.route = "send-template"
  /\ q.hasLead /\ q.type # NoVal /\ q.company # NoVal
  /\ q.store # <<>>
  /\ ~(q.failed = "store" /\ Len(q.store) = 1)
  /\ TemplateTable(q.company, q.type) # <<>>

\* C12: a send-template whose lookup returned at least one template attempts
\* one send per template whose channel has its contact field in the lead,
\* and leaves the leads table as it was except that the lead's status is the
\* type: issued_time, assigned_time, assigned_agent and assigned_branch keep
\* their values.
C12_SendTemplateFrame ==
  [][\A r \in DOMAIN reqs :
       (/\ reqs[r].pc = "idle"
        /\ reqs'[r].pc = "done"
        /\ TemplatesFound(reqs'[r]))
       => /\ Len(reqs'[r].sends) =
               Len(TemplatePlan(reqs'[r], TemplateTable(reqs'[r].company, reqs'[r].type)))
          /\ leads' = UpdateEq(leads, reqs'[r].lead, [status |-> reqs'[r].type])]_vars

\* The store rejected the first store call of request q.
FirstStoreCallRejected(q) == q.failed = "store" /\ Len(q.store) = 1

\* C13: an assign-branch for a stored lead leaves every lead's status,
\* assigned_agent, assigned_time and issued_time as they were, and, unless
\* the store rejects the update itself, leaves the lead's assigned_branch
\* equal to branchId whether the manager lookup fails, finds nobody, or a
\* send fails.
C13_AssignBranchFrame ==
  [][\A r \in DOMAIN reqs :
       (/\ reqs[r].pc = "idle"
        /\ reqs'[r].route = "assign-branch"
        /\ reqs'[r].lead \in DOMAIN leads
        /\ reqs'[r].branchId # NoVal)
       => /\ \A i \in DOMAIN leads :
               /\ leads'[i].status = leads[i].status
               /\ leads'[i].assigned_agent = leads[i].assigned_agent
               /\ leads'[i].assigned_time = leads[i].assigned_time
               /\ leads'[i].issued_time = leads[i].issued_time
          /\ ~FirstStoreCallRejected(reqs'[r])
               => leads'[reqs'[r].lead].assigned_branch = reqs'[r].branchId]_vars

\* A manager's SMS failed after the branch was persisted on a lead that an
\* agent already holds.
C13_Witness ==
  \E r \in DOMAIN reqs :
    /\ reqs[r].pc = "done"
    /\ reqs[r].route = "assign-branch"
    /\ reqs[r].failed = "send"
    /\ reqs[r].code = 500
    /\ reqs[r].branchId = "B1"
    /\ leads[L1].assigned_branch = "B1"
    /\ leads[L1].status = "In Progress"
    /\ leads[L1].assigned_agent = "Alice"

\* C14: when the recipient lookup returns no row and no store call fails,
\* assign-branch answers success with its no-managers message, the branch
\* persisted, and lead-created answers success; neither sends anything.
C14_NobodyToNotify ==
  \A r \in DOMAIN reqs :
    LET q == reqs[r]
    IN /\ (/\ q.pc = "done" /\ q.route = "assign-branch"
           /\ q.lead \in DOMAIN leads /\ q.branchId # NoVal
           /\ q.failed = "none"
           /\ BranchManagers(leads, q.lead, q.branchId) = {})
          => /\ q.code = 200 /\ q.success = "true"
             /\ q.msg = "Branch assigned successfully (no managers found for notification)"
             /\ q.sends = <<>>
             /\ leads[q.lead].assigned_branch = q.branchId
       /\ (/\ q.pc = "done" /\ q.route = "lead-created"
           /\ q.hasLead /\ q.company # NoVal
           /\ q.failed = "none"
           /\ AdminsOf(q.company) = {})
          => /\ q.code = 200 /\ q.success = "true"
             /\ q.sends = <<>>

\* Branch B3 has no manager: the branch is on the lead and nothing was sent.
C14_Witness ==
  \E r \in DOMAIN reqs :
    /\ reqs[r].pc = "done"
    /\ reqs[r].route = "assign-branch"
    /\ reqs[r].branchId = "B3"
    /\ reqs[r].code = 200
    /\ reqs[r].store = <<"update loan_applications", "select users">>
    /\ reqs[r].sends = <<>>
    /\ leads[L1].assigned_branch = "B3"

\* Company Nobody has no admin: lead-created answers success, nothing sent.
C14_WitnessLeadCreated ==
  \E r \in DOMAIN reqs :
    /\ reqs[r].pc = "done"
    /\ reqs[r].route = "lead-created"
    /\ reqs[r].company = "Nobody"
    /\ reqs[r].code = 200
    /\ reqs[r].store = <<"select users">>
    /\ reqs[r].sends = <<>>

\* The users request q may notify: same company as the lead, the role the
\* handler asks for, opted in, and for assign-branch the branch asked for.
Gated(q) ==
  {u \in DOMAIN UserTable :
     /\ UserTable[u].lead_notifications
     /\ CASE q.route = "lead-created" ->
               /\ UserTable[u].company_name = q.company
               /\ UserTable[u].role = "admin"
          [] q.route = "lead-created (v1)" ->
               /\ UserTable[u].company_name = q.company
               /\ UserTable[u].role = "manager"
          [] OTHER ->
               /\ q.lead \in DOMAIN leads
               /\ UserTable[u].company_name = leads[q.lead].company_name
               /\ UserTable[u].role = "manager"
               /\ UserTable[u].branch = q.branchId}

\* C15: every SMS and every email of lead-created (either variant) and of
\* assign-branch goes to a user of the lead's company with the handler's
\* role who opted in and, for assign-branch, whose branch is branchId.
C15_RecipientGating ==
  \A r \in DOMAIN reqs :
    (/\ reqs[r].pc = "done"
     /\ reqs[r].route \in {"lead-created", "lead-created (v1)", "assign-branch"})
    => \A i \in DOMAIN reqs[r].sends : reqs[r].sends[i].rcpt \in Gated(reqs[r])

\* C16: POST /vapi/callback answers 200 on each of its paths: no lead_id in
\* the event (no store call), the insert taken, the insert rejected.
C16_CallbackAlwaysAcknowledges ==
  \A r \in DOMAIN reqs :
    (reqs[r].pc = "done" /\ reqs[r].route = "vapi/callback")
    => /\ reqs[r].code = 200
       /\ Falsy(reqs[r].leadId) <=> reqs[r].store = <<>>
       /\ reqs[r].failed \in {"none", "store"}

\* The insert was rejected, the table holds no row, and the answer is 200.
C16_Witness ==
  \E r \in DOMAIN reqs :
    /\ reqs[r].pc = "done"
    /\ reqs[r].route = "vapi/callback"
    /\ reqs[r].leadId = L1
    /\ reqs[r].failed = "store"
    /\ reqs[r].code = 200
    /\ calls = {}

\* C17: every webhook route (lead-created, vapi/callback) answers 200,
\* whether the payload lacks a field, a store call fails or a send fails.
C17_WebhooksAlways200 ==
  \A r \in DOMAIN reqs :
    (/\ reqs[r].pc = "done"
     /\ reqs[r].route \in {"lead-created", "lead-created (v1)", "vapi/callback"})
    => reqs[r].code = 200

\* The store rejected the update of loan_applications request q issued.
UpdateRejected(q) ==
  /\ q.failed = "store"
  /\ q.store # <<>>
  /\ q.store[Len(q.store)] = "update loan_applications"

\* C18: assign-lead, send-template, mark-issued, confirm-status and
\* assign-branch answer a rejected lead update with a failure, never with
\* success.
C18_StoreErrorReported ==
  \A r \in DOMAIN reqs :
    (/\ reqs[r].pc = "done"
     /\ reqs[r].route \in {"assign-lead", "send-template", "mark-issued",
                           "confirm-status", "assign-branch"}
     /\ UpdateRejected(reqs[r]))
    => /\ reqs[r].code >= 400
       /\ reqs[r].success # "true"

\* The rows of agent a that count for request q: selected by q's filters,
\* status Issued, both timestamps set.
Qualifying(q, a) ==
  {i \in DOMAIN leads :
     /\ q.company # NoVal => leads[i].company_name = q.company
     /\ q.branchId # NoVal => leads[i].assigned_branch = q.branchId
     /\ leads[i].assigned_agent = a
     /\ leads[i].status = "Issued"
     /\ leads[i].assigned_time # NoTime
     /\ leads[i].issued_time # NoTime}
RECURSIVE TotalTti(_)
TotalTti(S) ==
  IF S = {} THEN 0
  ELSE LET i == CHOOSE x \in S : TRUE
       IN (leads[i].issued_time - leads[i].assigned_time) + TotalTti(S \ {i})
AgentNames == {leads[i].assigned_agent : i \in DOMAIN leads} \ {NoVal}

\* C19: the output of avg-tti has one entry for each agent with a qualifying
\* row and none for any other agent, and an entry's average is the rendering
\* of the mean of issued_time - assigned_time over that agent's qualifying
\* rows.
C19_TtiAggregation ==
  \A r \in DOMAIN reqs :
    LET q == reqs[r]
    IN (q.pc = "done" /\ q.route = "avg-tti" /\ q.code = 200)
       => /\ {q.data[k].assigned_agent : k \in DOMAIN q.data}
               = {a \in AgentNames : Qualifying(q, a) # {}}
          /\ \A j, k \in DOMAIN q.data :
               q.data[j].assigned_agent = q.data[k].assigned_agent => j = k
          /\ \A k \in DOMAIN q.data :
               LET rows == Qualifying(q, q.data[k].assigned_agent)
               IN q.data[k].avg_tti = Render(TotalTti(rows), Cardinality(rows))

\* Alice has a qualifying row and is reported; Bob's only row has both
\* timestamps and another status, and Bob is absent.
C19_Witness ==
  \E r \in DOMAIN reqs :
    /\ reqs[r].pc = "done" /\ reqs[r].route = "avg-tti" /\ reqs[r].code = 200
    /\ Len(reqs[r].data) = 1
    /\ reqs[r].data[1].assigned_agent = "Alice"
    /\ reqs[r].data[1].avg_tti = [d |-> 1, h |-> 1, m |-> 1]
    /\ \E i \in DOMAIN leads :
         /\ leads[i].assigned_agent = "Bob"
         /\ leads[i].status = "In Progress"
         /\ leads[i].assigned_time # NoTime
         /\ leads[i].issued_time # NoTime

\* C20: every average in the output of avg-tti has hours in 0..23 and
\* minutes in 0..59, and its days, hours and minutes add up to the whole
\* minutes of the mean of issued_time - assigned_time over the agent's
\* qualifying rows.
C20_TtiRendering ==
  \A r \in DOMAIN reqs :
    LET q == reqs[r]
    IN (q.pc = "done" /\ q.route = "avg-tti" /\ q.code = 200)
       => \A k \in DOMAIN q.data :
            LET rows == Qualifying(q, q.data[k].assigned_agent)
                t == q.data[k].avg_tti
            IN /\ t.h \in 0..23
               /\ t.m \in 0..59
               /\ rows # {} =>
                    t.d * 1440 + t.h * 60 + t.m
                      = Floor(TotalTti(rows), Cardinality(rows) * MsPerMinute)

Normalized(s) == ToLowerCase(Trim(s))

\* C21: with a company_name query value given, avg-tti (either variant)
\* answers exactly the rows whose company_name equals it after trimming and
\* lower-casing both (and whose branch is the branch asked for, when one
\* is), so two requests of one variant whose values are equal after
\* trimming and lower-casing, with the same branch, answer the same rows.
C21_CompanyFilter ==
  \A a, b \in DOMAIN reqs :
    LET p == reqs[a]
        q == reqs[b]
    IN /\ (p.pc = "done" /\ ~Falsy(p.company))
          => Range(p.data) =
               {i \in DOMAIN FilterTable :
                  /\ Normalized(FilterTable[i].company_name) = Normalized(p.company)
                  /\ p.branchId # NoVal => FilterTable[i].assigned_branch = p.branchId}
       /\ (/\ p.pc = "done" /\ q.pc = "done"
           /\ p.route = q.route
           /\ ~Falsy(p.company) /\ ~Falsy(q.company)
           /\ Normalized(p.company) = Normalized(q.company)
           /\ p.branchId = q.branchId)
          => p.data = q.data

\* C22: for every national subscriber number s, POST /call-lead dials the
\* same canonical +44<s> whether phone_number is the trunk-prefix form 0<s>,
\* a country-code form 44<s>, +44<s> or 0044<s>, or the bare <s>; and
\* toE164UK applied to a number it produced gives that number back.
Subscribers ==
  {s \in Phones : Len(s) > 0 /\ s[1] = "7" /\ \A i \in DOMAIN s : IsDigit(s[i])}
Canonical(s) == <<"+", "4", "4">> \o s
FormsOf(s) ==
  {<<"0">> \o s, <<"4", "4">> \o s, <<"+", "4", "4">> \o s,
   <<"0", "0", "4", "4">> \o s, s}
C22_PhoneNormalization ==
  \A r \in DOMAIN reqs :
    reqs[r].pc = "done" =>
      /\ \A s \in Subscribers :
           reqs[r].number \in FormsOf(s) => reqs[r].dialed = Canonical(s)
      /\ toE164UK(reqs[r].dialed) = reqs[r].dialed

\* C23: a GET /mark-issued/:token request is read-only whatever its outcome:
\* it sends no update to the lead table and leaves every field of every lead
\* as it was.
GetMarkIssuedRoutes ==
  {"GET mark-issued (v1)", "GET mark-issued (v2)", "GET mark-issued (v3)"}
C23_GetMarkIssuedReadOnly ==
  [][\A r \in DOMAIN reqs :
       (/\ reqs[r].pc = "idle"
        /\ reqs'[r].pc = "done"
        /\ reqs'[r].route \in GetMarkIssuedRoutes)
       => /\ ~UpdateIssued(reqs'[r])
          /\ leads' = leads]_vars

\* C24: every answer of an API-style route (assign-lead, send-template,
\* mark-issued, lead-created, avg-tti, assign-branch, call-lead) is a JSON
\* object with a boolean success field, true exactly when the status is 200.
ApiRoutes ==
  {"assign-lead", "send-template", "mark-issued", "lead-created",
   "lead-created (v1)", "avg-tti", "assign-branch", "call-lead"}
C24_JsonSuccessField ==
  \A r \in DOMAIN reqs :
    (reqs[r].pc = "done" /\ reqs[r].route \in ApiRoutes)
    => /\ reqs[r].kind = "json"
       /\ reqs[r].success \in {"true", "false"}
       /\ reqs[r].success = "true" <=> reqs[r].code = 200

\* C25: whatever requests have been handled, every lead's status is one of
\* New, In Progress, Issued, Agent Declined, Unable to Contact and
\* No Longer Needed.
C25_StatusDomain == \A i \in DOMAIN leads : leads[i].status \in StatusDomain

\* The step is taken by the request in slot r, on the given route.
StepOf(r, route) == reqs'[r] # reqs[r] /\ reqs'[r].route = route

\* C26 as stated: a lead's assigned_agent changes only in a step of an
\* assign-lead request answered with success, and its assigned_branch only in
\* a step of an assign-branch request answered with success.
C26_AssignmentOnlyOnSuccess ==
  [][\A i \in DOMAIN leads :
       /\ leads'[i].assigned_agent # leads[i].assigned_agent
          => \E r \in DOMAIN reqs :
               StepOf(r, "assign-lead") /\ reqs'[r].code = 200
       /\ leads'[i].assigned_branch # leads[i].assigned_branch
          => \E r \in DOMAIN reqs :
               StepOf(r, "assign-branch") /\ reqs'[r].code = 200]_vars

\* C26, amended: a lead's assigned_agent changes only in a step of an
\* assign-lead request for that lead answered with success, and its
\* assigned_branch only in a step of an assign-branch request for that lead
\* whose update the store accepted, whatever the request then answers; every
\* other handler leaves both fields of every lead as they were.
C26_AssignmentFrame ==
  [][\A i \in DOMAIN leads :
       /\ leads'[i].assigned_agent # leads[i].assigned_agent
          => \E r \in DOMAIN reqs :
               /\ StepOf(r, "assign-lead")
               /\ reqs'[r].lead = i
               /\ reqs'[r].code = 200
       /\ leads'[i].assigned_branch # leads[i].assigned_branch
          => \E r \in DOMAIN reqs :
               /\ StepOf(r, "assign-branch")
               /\ reqs'[r].lead = i
               /\ ~FirstStoreCallRejected(reqs'[r])]_vars

\* A confirm-status request has written a lead that has both an agent and a
\* branch assigned.
C26_Witness ==
  \E r \in DOMAIN reqs :
    /\ reqs[r].pc = "done"
    /\ reqs[r].route = "confirm-status"
    /\ reqs[r].code = 200
    /\ reqs[r].leadId = L1
    /\ leads[L1].status = "Agent Declined"
    /\ leads[L1].assigned_agent = "Alice"
    /\ leads[L1].assigned_branch = "B1"

\* One invocation of assign-lead, mark-issued, send-template or confirm-status
\* in which no external call fails takes the table ls, at clock reading t, to
\* a table where lead i has status s.
MovesTo(ls, t, i, s) ==
  \/ \E a \in AgentIds, n \in Nonces :
       AssignLeadHandler(ls, t, AssignLeadReq(TRUE, i, a), n,
                         FALSE, 0, FALSE).leads[i].status = s
  \/ MarkIssuedHandler(ls, t, MarkIssuedReq(TRUE, i), FALSE).leads[i].status = s
  \/ \E ty \in TemplateTypes :
       SendTemplateHandler(ls, t, SendTemplateReq(TRUE, i, TRUE, TRUE, ty, "Acme"),
                           FALSE, 0, FALSE).leads[i].status = s
  \/ \E n \in Nonces :
       LET q == ConfirmStatusLookup(ls, ConfirmStatusReq(generateIssueToken(i, n), s),
                                    FALSE)
       IN /\ q.pc = "fetched"
          /\ ConfirmStatusWrite(ls, t, q, FALSE, FALSE).leads[i].status = s

\* C27: whatever status a lead has reached, Issued, Agent Declined, Unable to
\* Contact and No Longer Needed included, for each other status of the spec
\* one invocation of assign-lead, confirm-status, mark-issued or send-template
\* leaves the lead with that status.
C27_NoAbsorbingStatus ==
  \A i \in DOMAIN leads :
    \A s \in StatusDomain \ {leads[i].status} : MovesTo(leads, now, i, s)

\* A lead that was assigned and then Issued is New again after a
\* confirm-status request.
C27_Witness ==
  \E r \in DOMAIN reqs :
    /\ reqs[r].pc = "done"
    /\ reqs[r].route = "confirm-status"
    /\ reqs[r].code = 200
    /\ reqs[r].status = "New"
    /\ leads[L1].status = "New"
    /\ leads[L1].assigned_agent # NoVal
    /\ leads[L1].issued_time # NoTime

\* The lead id a request names: in its body, or decoded from its token.
ReqLeadId(q) == IF q.route \in TokenRoutes THEN q.leadId ELSE q.lead
UpdatesSent(q) ==
  Cardinality({k \in DOMAIN q.store : q.store[k] = "update loan_applications"})

\* C28: a handler invocation sends at most one update to the lead table and
\* leaves every lead whose id is not the request's lead id unchanged; when
\* the store rejects that update no lead changes, the update is not sent
\* again, and the notifications sent before it stay sent.
C28_SingleKeyedUpdate ==
  [][\A r \in DOMAIN reqs :
       (reqs'[r] # reqs[r] /\ reqs'[r].pc = "done")
       => /\ UpdatesSent(reqs'[r]) <= 1
          /\ \A i \in DOMAIN leads :
               i # ReqLeadId(reqs'[r]) => leads'[i] = leads[i]
          /\ UpdateRejected(reqs'[r])
             => /\ leads' = leads
                /\ UpdatesSent(reqs'[r]) = 1
                /\ \A k \in DOMAIN reqs'[r].sends : reqs'[r].sends[k].ok]_vars

\* assign-lead notified the agent on both channels, then the store rejected
\* the update: the lead is as it was.
C28_Witness ==
  \E r \in DOMAIN reqs :
    /\ reqs[r].pc = "done"
    /\ reqs[r].route = "assign-lead"
    /\ reqs[r].lead = L1
    /\ UpdateRejected(reqs[r])
    /\ Len(reqs[r].sends) = 2
    /\ leads[L1].status = "New"
    /\ leads[L1].assigned_agent = NoVal

\* C29: on every token generateIssueToken makes from a canonical identifier,
\* the first five dash-separated pieces and everything before the last dash
\* are the same identifier.
C29_DecodersAgree ==
  tok.pc = "decoded" => tok.first5 = tok.lastDash

C29_Witness ==
  /\ tok.pc = "decoded"
  /\ tok.id = Lx
  /\ tok.first5 = Lx
  /\ tok.lastDash = Lx

\* POST /confirm-status/:token from request to response, no other request in
\* between: the table it leaves and its report.
ConfirmStatusHandler(ls, t, token, status, fetchErr, updErr) ==
  LET q == ConfirmStatusLookup(ls, ConfirmStatusReq(token, status), fetchErr)
  IN IF q.pc = "fetched"
     THEN ConfirmStatusWrite(ls, t, q, updErr, FALSE)
     ELSE [leads |-> ls, rep |-> q]

\* C30: two tokens that carry the same lead identifier and different nonces,
\* given to confirm-status with the same status in the same circumstances,
\* leave the same lead table and get the same response.
C30_NonceIndependence ==
  \A id \in BodyLeadIds, status \in QueryStatuses, f \in 0..2 :
    LET n1 == CHOOSE n \in Nonces : TRUE
        p == ConfirmStatusHandler(leads, now, generateIssueToken(id, n1), status,
                                  First(f, 1), First(f, 2))
    IN \A n2 \in Nonces \ {n1} :
         LET q == ConfirmStatusHandler(leads, now, generateIssueToken(id, n2),
                                       status, First(f, 1), First(f, 2))
         IN /\ p.leads = q.leads
            /\ [p.rep EXCEPT !.token = NoId] = [q.rep EXCEPT !.token = NoId]

\* A confirm-status request whose token carries another nonce than the
\* reference one has updated a lead that was never assigned.
C30_Witness ==
  \E r \in DOMAIN reqs :
    /\ reqs[r].pc = "done"
    /\ reqs[r].route = "confirm-status"
    /\ reqs[r].code = 200
    /\ reqs[r].leadId = L1
    /\ reqs[r].token # generateIssueToken(L1, CHOOSE n \in Nonces : TRUE)
    /\ leads[L1].status = "Issued"
    /\ leads[L1].assigned_time = NoTime

\* The request reached its sends: the recipient lookup answered.
Notifying(q) ==
  CASE q.route = "assign-lead" ->
         /\ q.hasLead
         /\ q.agentId \in DOMAIN AgentTable
         /\ ~FirstStoreCallRejected(q)
    [] q.route = "lead-created" -> q.code # 400 /\ q.failed # "store"
    [] OTHER ->
         /\ q.lead \in DOMAIN leads
         /\ q.branchId # NoVal
         /\ q.failed # "store"
PhoneOf(q, u) ==
  IF q.route = "assign-lead" THEN AgentTable[u].phone ELSE UserTable[u].phone
EmailOf(q, u) ==
  IF q.route = "assign-lead" THEN AgentTable[u].email ELSE UserTable[u].email

\* C31: in assign-lead, lead-created and assign-branch, an SMS is attempted
\* for a recipient exactly when the recipient's phone is present, an email
\* exactly when the email is present, and no (recipient, channel) pair is
\* attempted twice in one invocation.
C31_ChannelPresence ==
  \A r \in DOMAIN reqs :
    LET q == reqs[r]
    IN (/\ q.pc = "done"
        /\ q.route \in {"assign-lead", "lead-created", "assign-branch"}
        /\ Notifying(q))
       => /\ \A u \in Recipients(q) :
               /\ Attempted(q, u, "sms") <=> PhoneOf(q, u) # NoVal
               /\ Attempted(q, u, "email") <=> EmailOf(q, u) # NoVal
          /\ \A i, j \in DOMAIN q.sends :
               (/\ q.sends[i].rcpt = q.sends[j].rcpt
                /\ q.sends[i].channel = q.sends[j].channel) => i = j

\* C32: whatever assign-lead, send-template, mark-issued and confirm-status
\* requests have been handled, a lead with status Issued and both timestamps
\* set has issued_time >= assigned_time.
C32_IssuedAfterAssigned ==
  \A i \in DOMAIN leads :
    (/\ leads[i].status = "Issued"
     /\ leads[i].assigned_time # NoTime
     /\ leads[i].issued_time # NoTime)
    => leads[i].issued_time >= leads[i].assigned_time

====
